---- MODULE Spec2Model ----
(***************************************************************************)
(* A model of the wv crate (src/src/lib.rs): the Webview wrapper around    *)
(* the native webview engine.  The wrapper's own code (Drop, the wrapped   *)
(* operations, the two extern "C" callbacks) is modelled from lib.rs; the  *)
(* native engine behind the C ABI (its dispatch queue, its table of        *)
(* bindings) is modelled from the specification's description of it.       *)
(***************************************************************************)
EXTENDS Integers, Sequences, FiniteSets, TLC

VARIABLES
    inner,      \* the webview_t held in Webview.inner (Arc<webview_t>)
    strong,     \* Arc::strong_count of the Arc made by create_no_win
    clones,     \* how many times Webview::clone has been called
    teardown,   \* the webview_terminate / webview_destroy calls issued so far
    boxes,      \* the heap: every closure handed out through Box::into_raw
    cbq,        \* native engine: work queued by webview_dispatch, oldest first
    sched,      \* the boxes webview_dispatch accepted, in scheduling order
    invoked,    \* what the dispatch closures observed, in invocation order
    bindings,   \* native engine: the table of bound names
    issued,     \* the native invocations of bound names, in the order issued
    seen,       \* what the bound handlers observed, in invocation order
    last        \* the last wrapped operation: its arguments, native calls, result

vars == <<inner, strong, clones, teardown, boxes, cbq, sched, invoked,
          bindings, issued, seen, last>>

-----------------------------------------------------------------------------
(* Bounds of the model *)

MaxLen == 2
MaxClones == 2
MaxBoxes == 3
MaxBinds == 2
OpsBoxes == 1
MaxCalls == 2

-----------------------------------------------------------------------------
(* WvErrorKind, #[repr(i32)] *)

MissingDependency == -5
OperationCancelled == -4
InvalidState == -3
InvalidArgument == -2
Unspecified == -1
Duplicate == 1
NotFound == 2

WvErrorKind ==
    {"MissingDependency", "OperationCancelled", "InvalidState",
     "InvalidArgument", "Unspecified", "Duplicate", "NotFound"}

Discriminant(k) ==
    CASE k = "MissingDependency" -> MissingDependency
      [] k = "OperationCancelled" -> OperationCancelled
      [] k = "InvalidState" -> InvalidState
      [] k = "InvalidArgument" -> InvalidArgument
      [] k = "Unspecified" -> Unspecified
      [] k = "Duplicate" -> Duplicate
      [] k = "NotFound" -> NotFound

\* An i32 that is the discriminant of no variant, held in a WvErrorKind.
InvalidKind == "invalid discriminant"

(* SizeHint, #[repr(u32)] *)
SizeHint == {"None", "Min", "Max", "Fixed"}

SizeHintAsU32(h) ==
    CASE h = "None" -> 0
      [] h = "Min" -> 1
      [] h = "Max" -> 2
      [] h = "Fixed" -> 3

(* WvError and Result<(), WvError> *)
Ok == [tag |-> "Ok", kind |-> "-"]
NullError == [tag |-> "NullError", kind |-> "-"]
Internal(k) == [tag |-> "Internal", kind |-> k]
Unknown == [tag |-> "Unknown", kind |-> "-"]

-----------------------------------------------------------------------------
(* Strings.  A Rust &str is a sequence of bytes that may hold the byte 0;  *)
(* a C string is a buffer that ends at its first 0.                        *)

\* The byte 0 is NUL; 1 stands for every other byte.
Bytes == {0, 1}
Strings == UNION {[1..n -> Bytes] : n \in 0..MaxLen}
HasNul(s) == \E i \in 1..Len(s) : s[i] = 0

CStringNewUnchecked(s) == [ok |-> TRUE, buf |-> Append(s, 0)]

\* CString::new: Err(NulError) on any 0 byte, else the bytes and a terminator.
CStringNew(s) ==
    IF HasNul(s) THEN [ok |-> FALSE, buf |-> <<>>]
    ELSE [ok |-> TRUE, buf |-> Append(s, 0)]

\* What a reader of a C buffer sees (CStr::from_ptr, the engine's own reads):
\* the bytes before the first 0.
CStrFromPtr(buf) ==
    LET n == CHOOSE i \in 1..Len(buf) :
                 buf[i] = 0 /\ \A j \in 1..(i - 1) : buf[j] # 0
    IN SubSeq(buf, 1, n - 1)

\* The literal "data:text/html;charset=utf-8," of set_html, as a NUL-free text.
DataUrlPrefix == <<1>>

-----------------------------------------------------------------------------
(* Status translation *)

\* The statuses the native engine can hand back, the closed set and beyond.
NativeStatus == (-6)..3

\* std::mem::transmute::<i32, WvErrorKind>(ret): the variant whose discriminant
\* is ret; for any other ret the behaviour is undefined, so any outcome.
Transmute(ret) ==
    IF \E k \in WvErrorKind : Discriminant(k) = ret
    THEN {k \in WvErrorKind : Discriminant(k) = ret}
    ELSE WvErrorKind \cup {InvalidKind}

StatusNeNegOnly(ret) ==
    IF ret < 0 THEN {Internal(k) : k \in Transmute(ret)} ELSE {Ok}

\* if ret != 0 { Err(WvError::Internal(transmute(ret))) } else { Ok(()) }
StatusNe(ret) ==
    IF ret # 0 THEN {Internal(k) : k \in Transmute(ret)} ELSE {Ok}

\* if ret == 0 { Ok(()) } else { Err(WvError::Internal(transmute(ret))) }
StatusEq(ret) ==
    IF ret = 0 THEN {Ok} ELSE {Internal(k) : k \in Transmute(ret)}

NativeCall(fn, args, ret) == [fn |-> fn, args |-> args, ret |-> ret]

Op(op, args, native, result) ==
    [op |-> op, args |-> args, native |-> native, result |-> result]

\* No result in the caller's hands: the caller is between two operations.
Idle == Op("-", <<>>, <<>>, [tag |-> "-", kind |-> "-"])

-----------------------------------------------------------------------------
(* Handles *)

\* The webview_t that webview_create hands back.
Handle == "webview_t"

Init ==
    /\ inner = Handle
    /\ strong = 1
    /\ clones = 0
    /\ teardown = <<>>
    /\ boxes = <<>>
    /\ cbq = <<>>
    /\ sched = <<>>
    /\ invoked = <<>>
    /\ bindings = {}
    /\ issued = <<>>
    /\ seen = <<>>
    /\ last = Op("create_no_win", <<>>,
                 <<NativeCall("webview_create", <<>>, 0)>>, Ok)

bridge == <<strong, clones, teardown, boxes, cbq, sched, invoked,
            bindings, issued, seen>>

\* A wrapped operation of one string that forwards to one native function.
StringOp(op, fn, arg, str) ==
    /\ strong >= 1
    /\ last = Idle
    /\ LET c == CStringNew(str) IN
        IF ~c.ok
        THEN last' = Op(op, arg, <<>>, NullError)
        ELSE \E ret \in NativeStatus : \E res \in StatusNe(ret) :
                last' = Op(op, arg,
                           <<NativeCall(fn, <<inner, CStrFromPtr(c.buf)>>, ret)>>,
                           res)
    /\ UNCHANGED <<inner, bridge>>

navigate == \E url \in Strings :
    StringOp("navigate", "webview_navigate", <<url>>, url)

set_html == \E html \in Strings :
    StringOp("set_html", "webview_navigate", <<html>>,
             DataUrlPrefix \o html)

init == \E js \in Strings :
    StringOp("init", "webview_init", <<js>>, js)

eval == \E js \in Strings :
    StringOp("eval", "webview_eval", <<js>>, js)

set_title == \E title \in Strings :
    StringOp("set_title", "webview_set_title", <<title>>, title)

\* return_(seq, status, result): seq is converted first, then result.
return_ == \E seq \in Strings, status \in {0, 1}, result \in Strings :
    /\ strong >= 1
    /\ last = Idle
    /\ LET s == CStringNew(seq)
           r == CStringNew(result) IN
        IF ~s.ok \/ ~r.ok
        THEN last' = Op("return_", <<seq, status, result>>, <<>>, NullError)
        ELSE \E ret \in NativeStatus : \E res \in StatusNe(ret) :
                last' = Op("return_", <<seq, status, result>>,
                           <<NativeCall("webview_return",
                                        <<inner, CStrFromPtr(s.buf), status,
                                          CStrFromPtr(r.buf)>>, ret)>>,
                           res)
    /\ UNCHANGED <<inner, bridge>>

set_size == \E width \in {800}, height \in {300, 600}, hints \in SizeHint :
    /\ strong >= 1
    /\ last = Idle
    /\ \E ret \in NativeStatus : \E res \in StatusNe(ret) :
        last' = Op("set_size", <<width, height, hints>>,
                   <<NativeCall("webview_set_size",
                                <<inner, width, height, SizeHintAsU32(hints)>>,
                                ret)>>,
                   res)
    /\ UNCHANGED <<inner, bridge>>

\* run blocks until the engine's loop ends; the action is its return.
run(S) == \E ret \in S : \E res \in StatusEq(ret) :
    /\ strong >= 1
    /\ last = Idle
    /\ last' = Op("run", <<>>, <<NativeCall("webview_run", <<inner>>, ret)>>, res)
    /\ UNCHANGED <<inner, bridge>>

\* The caller takes the Result of the operation it called and goes on.
take ==
    /\ last # Idle
    /\ last' = Idle
    /\ UNCHANGED <<inner, bridge>>

-----------------------------------------------------------------------------
(* The heap of boxed closures.  A box is named by its index in boxes. *)

\* Box::into_raw(Box::new(f)): a live allocation nobody on the Rust side owns.
\* state is the closure's captured state; reg records what became of a binding.
NewBox(kind) ==
    [kind |-> kind, live |-> TRUE, frees |-> 0, state |-> 0, reg |-> "none"]

\* Dropping the Box rebuilt by Box::from_raw: the allocation is released.
BoxDrop(bs, arg) ==
    [bs EXCEPT ![arg].live = FALSE, ![arg].frees = @ + 1]

-----------------------------------------------------------------------------
(* Reference counting and teardown *)

\* Webview::clone (derived): Arc::clone of inner.
clone ==
    /\ strong >= 1
    /\ clones < MaxClones
    /\ strong' = strong + 1
    /\ clones' = clones + 1
    /\ UNCHANGED <<inner, teardown, boxes, cbq, sched, invoked, bindings,
                   issued, seen, last>>

DropCallsEqOne(count) ==
    IF count = 1 THEN <<"webview_terminate", "webview_destroy">> ELSE <<>>

DropCallsNonZero(count) ==
    IF count # 0 THEN <<"webview_terminate", "webview_destroy">> ELSE <<>>

\* Drop::drop of a Webview whose Arc has strong count `count` as drop runs
\* (the field inner is released only after drop returns).
DropCalls(count) ==
    IF count = 0 THEN <<"webview_terminate", "webview_destroy">> ELSE <<>>

\* Dropping one Webview that shares the Arc made by create_no_win.
drop ==
    /\ strong >= 1
    /\ teardown' = teardown \o DropCalls(strong)
    /\ strong' = strong - 1
    /\ UNCHANGED <<inner, clones, boxes, cbq, sched, invoked, bindings,
                   issued, seen, last>>

EngineAlive == \A i \in 1..Len(teardown) : teardown[i] # "webview_destroy"

-----------------------------------------------------------------------------
(* One-shot dispatch *)

\* Native webview_dispatch: on success the work is queued behind earlier work.
WebviewDispatch(q, w, arg, ret) ==
    IF ret = 0 THEN Append(q, [w |-> w, arg |-> arg]) ELSE q

dispatch(S, cap) ==
    /\ strong >= 1
    /\ last = Idle
    /\ Len(boxes) < cap
    /\ LET closure == Len(boxes) + 1 IN
        \E ret \in S : \E res \in StatusEq(ret) :
            /\ boxes' = Append(boxes, NewBox("dispatch"))
            /\ cbq' = WebviewDispatch(cbq, inner, closure, ret)
            /\ sched' = IF ret = 0 THEN Append(sched, closure) ELSE sched
            /\ last' = Op("dispatch", <<closure>>,
                          <<NativeCall("webview_dispatch", <<inner, closure>>, ret)>>,
                          res)
    /\ UNCHANGED <<inner, strong, clones, teardown, invoked, bindings,
                   issued, seen>>

ReclaimClosureForget(bs, arg) == bs

\* let closure: Box<F> = Box::from_raw(arg); (*closure)(webview);
\* the call consumes the closure and its allocation goes with it.
ReclaimClosure(bs, arg) == BoxDrop(bs, arg)

\* extern "C" fn callback of dispatch.  The closure is handed a Webview over
\* a fresh Arc (strong count 1) and drops it when it returns.
DispatchCallback(webview, arg) ==
    LET calls == DropCalls(1) IN
    /\ boxes' = ReclaimClosure(boxes, arg)
    /\ invoked' = Append(invoked, [box |-> arg, handle |-> webview,
                                   refs |-> strong, calls |-> calls])
    /\ teardown' = teardown \o calls

\* The native loop runs the oldest queued work.
LoopDispatch ==
    /\ EngineAlive
    /\ cbq # <<>>
    /\ cbq' = Tail(cbq)
    /\ DispatchCallback(Head(cbq).w, Head(cbq).arg)
    /\ UNCHANGED <<inner, strong, clones, sched, bindings, issued, seen, last>>

-----------------------------------------------------------------------------
(* Named bindings *)

Bound(key) == \E b \in bindings : b.name = key

\* Native webview_bind: a name already bound is a duplicate.
WebviewBindStatus(key, S) == IF Bound(key) THEN {Duplicate} ELSE S

\* Native webview_unbind: a name not bound is not found.
WebviewUnbindStatus(key, S) == IF Bound(key) THEN S ELSE {NotFound}

bind(N, S, cap) == \E name \in N :
    /\ strong >= 1
    /\ last = Idle
    /\ LET c == CStringNew(name) IN
        IF ~c.ok
        THEN /\ last' = Op("bind", <<name>>, <<>>, NullError)
             /\ UNCHANGED <<boxes, bindings>>
        ELSE /\ Len(boxes) < cap
             /\ LET arg == Len(boxes) + 1
                    key == CStrFromPtr(c.buf) IN
                 \E ret \in WebviewBindStatus(key, S) : \E res \in StatusNe(ret) :
                    /\ boxes' = Append(boxes,
                          [NewBox("bind") EXCEPT
                              !.reg = IF ret = 0 THEN "bound" ELSE "none"])
                    /\ bindings' = IF ret = 0
                                   THEN bindings \cup {[name |-> key, arg |-> arg]}
                                   ELSE bindings
                    /\ last' = Op("bind", <<name>>,
                                  <<NativeCall("webview_bind",
                                               <<inner, key, arg>>, ret)>>,
                                  res)
    /\ UNCHANGED <<inner, strong, clones, teardown, cbq, sched, invoked,
                   issued, seen>>

unbind(N, S) == \E name \in N :
    /\ strong >= 1
    /\ last = Idle
    /\ LET c == CStringNew(name) IN
        IF ~c.ok
        THEN /\ last' = Op("unbind", <<name>>, <<>>, NullError)
             /\ UNCHANGED <<boxes, bindings>>
        ELSE LET key == CStrFromPtr(c.buf) IN
             \E ret \in WebviewUnbindStatus(key, S) : \E res \in StatusNe(ret) :
                /\ bindings' = IF ret = 0
                               THEN {b \in bindings : b.name # key}
                               ELSE bindings
                /\ boxes' = [i \in DOMAIN boxes |->
                               IF ret = 0 /\ [name |-> key, arg |-> i] \in bindings
                               THEN [boxes[i] EXCEPT !.reg = "unbound"]
                               ELSE boxes[i]]
                /\ last' = Op("unbind", <<name>>,
                              <<NativeCall("webview_unbind", <<inner, key>>, ret)>>,
                              res)
    /\ UNCHANGED <<inner, strong, clones, teardown, cbq, sched, invoked,
                   issued, seen>>

\* What a call through Box::from_raw(arg) reads as the closure's state: the
\* state of a live allocation; anything at all once it has been released.
ReadState(bs, arg) ==
    IF bs[arg].live THEN {bs[arg].state} ELSE 0..MaxCalls

AfterCallDrop(bs, arg) == BoxDrop(bs, arg)

\* (*f)(seq, req); mem::forget(f): the handler changes its captured state and
\* the allocation stays with the native side.
AfterCall(bs, arg) == [bs EXCEPT ![arg].state = @ + 1]

BindCallbackSwapped(seq, req, arg) ==
    \E obs \in ReadState(boxes, arg) :
        /\ seen' = Append(seen, [box |-> arg, seq |-> CStrFromPtr(req),
                                 req |-> CStrFromPtr(seq), obs |-> obs])
        /\ boxes' = AfterCall(boxes, arg)

\* extern "C" fn callback of bind: seq and req are C buffers.
BindCallback(seq, req, arg) ==
    \E obs \in ReadState(boxes, arg) :
        /\ seen' = Append(seen, [box |-> arg, seq |-> CStrFromPtr(seq),
                                 req |-> CStrFromPtr(req), obs |-> obs])
        /\ boxes' = AfterCall(boxes, arg)

\* The names and payloads the script side uses.
BridgeNames == {<<1>>, <<1, 1>>}
Payloads == {<<>>, <<1>>}

\* The engine's correlation token of its i-th invocation.
SeqToken(i) == [j \in 1..i |-> 1]

\* The script side calls `name`: the engine runs the callback bound to it,
\* and rejects the call when nothing is bound.
LoopInvoke == \E name \in BridgeNames, req \in Payloads :
    /\ EngineAlive
    /\ Len(issued) < MaxCalls
    /\ LET seq == SeqToken(Len(issued) + 1) IN
        IF Bound(name)
        THEN LET b == CHOOSE x \in bindings : x.name = name IN
             /\ issued' = Append(issued, [name |-> name, seq |-> seq,
                                          req |-> req, arg |-> b.arg])
             /\ BindCallback(Append(seq, 0), Append(req, 0), b.arg)
        ELSE /\ issued' = Append(issued, [name |-> name, seq |-> seq,
                                          req |-> req, arg |-> 0])
             /\ UNCHANGED <<seen, boxes>>
    /\ UNCHANGED <<inner, strong, clones, teardown, cbq, sched, invoked,
                   bindings, last>>

-----------------------------------------------------------------------------
(* Specifications *)

\* The statuses the bridge operations are driven with in SpecLife and SpecBind.
BridgeStatus == {0, Unspecified}

Dispatch == dispatch(BridgeStatus, MaxBoxes)

\* Handles and one-shot closures over their lifetime.
NextLife ==
    \/ clone
    \/ drop
    \/ Dispatch
    \/ LoopDispatch
    \/ take

SpecLife == Init /\ [][NextLife]_vars

Bind == bind(BridgeNames, BridgeStatus, MaxBinds)
Unbind == unbind(BridgeNames, BridgeStatus)

\* Bindings over their lifetime.
NextBind ==
    \/ drop
    \/ Bind
    \/ Unbind
    \/ LoopInvoke
    \/ take

SpecBind == Init /\ [][NextBind]_vars

DispatchAny == dispatch(NativeStatus, OpsBoxes)
BindAny == bind(Strings, NativeStatus, OpsBoxes)
UnbindAny == unbind(Strings, NativeStatus)
Run == run(NativeStatus)

\* Every wrapped operation, over every string and every native status.
NextOps ==
    \/ navigate
    \/ set_html
    \/ init
    \/ eval
    \/ DispatchAny
    \/ BindAny
    \/ UnbindAny
    \/ return_
    \/ set_size
    \/ set_title
    \/ Run
    \/ take

SpecOps == Init /\ [][NextOps]_vars

-----------------------------------------------------------------------------
(* Properties *)

Teardown == <<"webview_terminate", "webview_destroy">>

\* C1: once the final reference to the handle made by create_no_win has been
\* dropped, exactly one webview_terminate followed by one webview_destroy has
\* been issued, and nothing more.
C1_FinalDropTearsDownOnce == strong = 0 => teardown = Teardown

\* C2: while references to the handle are outstanding, neither
\* webview_terminate nor webview_destroy has been called: dropping a reference
\* that has siblings performs no native action.
C2_NoTeardownWhileShared == strong >= 1 => teardown = <<>>

\* Two clones were made and all but two references remain dropped.
C2_Witness == clones >= 2 /\ strong = 2 /\ teardown = <<>>

StringOps ==
    {"navigate", "set_html", "init", "eval", "bind", "unbind", "return_",
     "set_title"}

StringArgs(l) ==
    IF l.op = "return_" THEN {l.args[1], l.args[3]}
    ELSE IF l.op \in StringOps THEN {l.args[1]}
    ELSE {}

NulRejected(l) ==
    (\E str \in StringArgs(l) : HasNul(str))
        => l.result = NullError /\ l.native = <<>>

\* C3: a string-bearing operation given a string that holds a NUL returns
\* NullError and calls no native function; for return_ this holds for seq and
\* for result; for bind nothing is boxed and nothing is registered.
C3_NulNeverReachesNative ==
    /\ []NulRejected(last)
    /\ [][(last' # last /\ last'.op = "bind" /\ HasNul(last'.args[1]))
            => bindings' = bindings /\ boxes' = boxes]_vars

\* return_ was called with a clean seq and a result that holds a NUL.
C3_Witness ==
    /\ last.op = "return_"
    /\ ~HasNul(last.args[1])
    /\ HasNul(last.args[3])
    /\ last.result = NullError

FallibleOps ==
    {"navigate", "set_html", "init", "eval", "dispatch", "bind", "unbind",
     "return_", "set_size", "set_title", "run"}

KindOfCode(c) ==
    CASE c = -5 -> "MissingDependency"
      [] c = -4 -> "OperationCancelled"
      [] c = -3 -> "InvalidState"
      [] c = -2 -> "InvalidArgument"
      [] c = -1 -> "Unspecified"
      [] c = 1 -> "Duplicate"
      [] c = 2 -> "NotFound"

ClosedCodes == {-5, -4, -3, -2, -1, 1, 2}

\* C4: whatever the operation, a native status of 0 yields Ok(()) and a status
\* c of the closed set yields Err(Internal(k)), k the kind whose value is c.
C4_StatusTranslation ==
    (last.op \in FallibleOps /\ last.native # <<>>) =>
        LET c == last.native[1].ret IN
        /\ c = 0 => last.result = Ok
        /\ c \in ClosedCodes => last.result = Internal(KindOfCode(c))

\* set_size came back from a native status of 2 as Internal(NotFound).
C4_Witness ==
    /\ last.op = "set_size"
    /\ last.native # <<>>
    /\ last.native[1].ret = 2
    /\ last.result = Internal("NotFound")

\* C5: a non-zero native status outside the closed set is reported as
\* WvError::Unknown.
C5_OutOfSetIsUnknown ==
    (last.op \in FallibleOps /\ last.native # <<>>
        /\ last.native[1].ret \notin ClosedCodes \cup {0})
    => last.result = Unknown

InvokedBoxes == [i \in 1..Len(invoked) |-> invoked[i].box]
QueuedBoxes == [i \in 1..Len(cbq) |-> cbq[i].arg]

\* C6: the closures webview_dispatch accepted are invoked in the order they
\* were scheduled, none twice; a closure's box is released exactly once, at
\* its invocation, and is untouched until then.
C6_DispatchOnceInOrder ==
    /\ InvokedBoxes \o QueuedBoxes = sched
    /\ \A i, j \in 1..Len(sched) : i < j => sched[i] < sched[j]
    /\ \A i \in 1..Len(invoked) :
        ~boxes[invoked[i].box].live /\ boxes[invoked[i].box].frees = 1
    /\ \A i \in 1..Len(cbq) :
        boxes[cbq[i].arg].live /\ boxes[cbq[i].arg].frees = 0

\* Three closures were scheduled and the loop has run all three.
C6_Witness == Len(invoked) = 3 /\ Len(sched) = 3 /\ cbq = <<>>

IsAccepted(e) == e.arg # 0
Accepted == SelectSeq(issued, IsAccepted)
Observations(log, b) == Cardinality({i \in 1..Len(log) : log[i].box = b})

\* C7: each invocation of a bound name reaches the handler bound to it once,
\* with the seq and req it was issued with, in the order issued; an
\* invocation of a name that is not bound is rejected; a handler is never
\* reached once its name has been unbound; unbind of a name that is not bound
\* returns an error.
C7_BindingRoundTrip ==
    /\ [](/\ Len(seen) = Len(Accepted)
          /\ \A i \in 1..Len(seen) :
                /\ seen[i].box = Accepted[i].arg
                /\ seen[i].seq = Accepted[i].seq
                /\ seen[i].req = Accepted[i].req)
    /\ [][/\ Len(issued') > Len(issued) =>
                LET e == issued'[Len(issued')] IN
                IF Bound(e.name)
                THEN [name |-> e.name, arg |-> e.arg] \in bindings
                ELSE e.arg = 0
          /\ \A b \in DOMAIN boxes :
                boxes[b].reg = "unbound"
                    => Observations(seen', b) = Observations(seen, b)
          /\ (last' # last /\ last'.op = "unbind" /\ last'.native # <<>>
                /\ ~Bound(last'.native[1].args[2]))
                => last'.result = Internal("NotFound")]_vars

\* A handler was reached, its name was then unbound, and a later invocation
\* of that name was rejected.
C7_Witness ==
    \E i, j \in 1..Len(issued) :
        /\ i < j
        /\ issued[i].arg # 0
        /\ boxes[issued[i].arg].reg = "unbound"
        /\ issued[j].name = issued[i].name
        /\ issued[j].arg = 0

\* C8: the boxed handler of a binding that has been unbound has been released
\* exactly once.
C8_UnboundHandlerReleasedOnce ==
    \A b \in DOMAIN boxes :
        boxes[b].reg = "unbound" => ~boxes[b].live /\ boxes[b].frees = 1

\* C9: while a binding is registered its boxed state stays allocated however
\* often it is invoked, and each invocation observes the mutations of all the
\* invocations of that handler before it.
C9_BindingStatePersists ==
    /\ \A b \in DOMAIN boxes :
        boxes[b].reg = "bound" => boxes[b].live /\ boxes[b].frees = 0
    /\ \A i \in 1..Len(seen) :
        seen[i].obs = Observations(SubSeq(seen, 1, i - 1), seen[i].box)

\* A handler still bound has been invoked twice.
C9_Witness ==
    \E i \in 1..Len(seen) :
        seen[i].obs >= 1 /\ boxes[seen[i].box].reg = "bound"

\* C10: the Webview a dispatch closure is handed is over the engine dispatch
\* was called on, and dropping it while the scheduling handle is alive calls
\* neither webview_terminate nor webview_destroy; teardown happens only once
\* no reference is left, and at most once.
C10_ClosureHandleAliasesEngine ==
    /\ \A i \in 1..Len(invoked) :
        /\ invoked[i].handle = inner
        /\ invoked[i].refs >= 1 => invoked[i].calls = <<>>
    /\ teardown # <<>> => strong = 0 /\ teardown = Teardown

\* A closure ran, and dropped its Webview, while the scheduling handle lived.
C10_Witness == \E i \in 1..Len(invoked) : invoked[i].refs >= 1 /\ strong >= 1

====
